---- MODULE Spec2Model ----
(***************************************************************************)
(* storedb: a typed, transactional key-value layer over one SQLite         *)
(* connection.  Two front ends share the engine:                           *)
(*   Db<K,V> / Tx<K,V>                    (src/db.rs, src/tx.rs)           *)
(*   Database / Collection / CollectionTx (src/database.rs,                *)
(*                                         src/collection.rs,              *)
(*                                         src/collection_tx.rs)           *)
(* The engine is modelled by the working contents of its tables, the last  *)
(* committed contents (disk) and the connection's autocommit flag.         *)
(***************************************************************************)
EXTENDS Integers, Sequences, FiniteSets, TLC

\* ---------------------------------------------------------------- bounds
\* Number of transactions the program begins in one run.
MaxTx == 2

\* ---------------------------------------------------------------- inputs
\* Collection names the program asks for.
Names == {"x", "y"}
\* Type signatures (std::any::type_name) of the key/value types in use.
TypePairs == { [K |-> "String", V |-> "String"],
               [K |-> "u32", V |-> "String"],
               [K |-> "String", V |-> "u32"] }
\* Type parameters <K, V> a Db is constructed with.
DbTypePairs == TypePairs \cup { [K |-> "u32", V |-> "u32"] }

\* Logical values: a u32 or an (ASCII) String, the latter as its bytes.
U32(n) == [t |-> "u32", n |-> n, s |-> << >>]
Str(s) == [t |-> "String", n |-> 0, s |-> s]
Unit == [t |-> "unit", n |-> 0, s |-> << >>]

ValuesOf(type) ==
  IF type = "u32" THEN {U32(1), U32(300)} ELSE {Str(<<97>>)}

\* ----------------------------------------------------------------- codec
\* postcard varint (LEB128) of an unsigned integer.
RECURSIVE Varint(_)
Varint(n) ==
  IF n < 128 THEN <<n>> ELSE <<(n % 128) + 128>> \o Varint(n \div 128)

\* postcard::to_stdvec: u32 -> varint; String -> varint(len) ++ bytes.
to_stdvec(v) ==
  IF v.t = "u32" THEN Varint(v.n) ELSE Varint(Len(v.s)) \o v.s

\* Reads a varint of at most 5 bytes from the front of b starting at byte i
\* with the bits read so far in acc and their weight in mul.
RECURSIVE TakeVarint(_, _, _, _)
TakeVarint(b, i, acc, mul) ==
  IF i > Len(b) \/ i > 5 THEN [ok |-> FALSE, n |-> 0, used |-> 0]
  ELSE IF b[i] < 128 THEN [ok |-> TRUE, n |-> acc + b[i] * mul, used |-> i]
  ELSE TakeVarint(b, i + 1, acc + (b[i] - 128) * mul, mul * 128)

\* postcard::from_bytes::<T>: trailing bytes are ignored; a short or
\* malformed input is an error.
from_bytes(type, b) ==
  LET h == TakeVarint(b, 1, 0, 1) IN
  IF ~h.ok THEN [ok |-> FALSE, val |-> Unit]
  ELSE IF type = "u32" THEN [ok |-> TRUE, val |-> U32(h.n)]
  ELSE IF Len(b) - h.used < h.n THEN [ok |-> FALSE, val |-> Unit]
  ELSE LET body == SubSeq(b, h.used + 1, h.used + h.n) IN
       IF \E j \in 1..Len(body) : body[j] >= 128
       THEN [ok |-> FALSE, val |-> Unit]
       ELSE [ok |-> TRUE, val |-> Str(body)]

\* ----------------------------------------------------------------- state
VARIABLES
  store,            \* which front end was constructed, and Db's <K, V>
  kv_store,         \* rows of table kv_store as the connection sees them
  collection_meta,  \* rows of table collection_meta, likewise
  disk,             \* last committed contents of both tables
  autocommit,       \* TRUE iff no engine transaction is open
  colls,            \* Collection handles the program holds
  txs,              \* every transaction handle begun so far
  ret               \* the last call and what it returned

vars == <<store, kv_store, collection_meta, disk, autocommit, colls, txs, ret>>

\* Results.
Ok(v) == [tag |-> "Ok", v |-> v]
Err(e) == [tag |-> "Err", v |-> e]
None == [t |-> "none", n |-> 0, s |-> << >>]
\* ret: the call (for get_collection, key is the Collection asked for), its
\* result, and dirty: for commit, rollback and drop, whether the handle had
\* uncommitted changes to kv_store when it was finalized.
Call(op, tx, key, val, res) ==
  [op |-> op, tx |-> tx, key |-> key, val |-> val, res |-> res,
   dirty |-> FALSE]
Finalize(op, tx, dirty) ==
  [op |-> op, tx |-> tx, key |-> Unit, val |-> Unit, res |-> Ok(Unit),
   dirty |-> dirty]

\* Db::new and Database::new: the tables exist and are empty.
Db_new ==
  /\ store \in { [kind |-> "Db", K |-> p.K, V |-> p.V] : p \in DbTypePairs }
  /\ kv_store = {}
  /\ collection_meta = {}
  /\ disk = [kv_store |-> {}, collection_meta |-> {}]
  /\ autocommit = TRUE

Database_new ==
  /\ store = [kind |-> "Database", K |-> "", V |-> ""]
  /\ kv_store = {}
  /\ collection_meta = {}
  /\ disk = [kv_store |-> {}, collection_meta |-> {}]
  /\ autocommit = TRUE

Init ==
  /\ Db_new \/ Database_new
  /\ colls = {}
  /\ txs = << >>
  /\ ret = Call("new", 0, Unit, Unit, Ok(Unit))

\* Transaction handles that are alive (not consumed, not dropped).
OpenTxs == { t \in 1..Len(txs) : txs[t].state = "Open" }

\* -------------------------------------------------- Database (registry)
\* Database::get_collection as it would be with && between the two
\* comparisons of the stored signature.
Database_get_collection_and(name, p) ==
  /\ store.kind = "Database"
  /\ LET rows == { r \in collection_meta : r.name = name }
         coll == [name |-> name, K |-> p.K, V |-> p.V]
     IN
     IF rows # {}
     THEN \E row \in rows :
          IF row.key_type # p.K /\ row.value_type # p.V
          THEN /\ ret' = Call("get_collection", 0, coll, Unit,
                   Err([kind |-> "TypeMismatch",
                        expected_key |-> p.K, expected_value |-> p.V,
                        got_key |-> row.key_type,
                        got_value |-> row.value_type]))
               /\ UNCHANGED <<collection_meta, disk, colls>>
          ELSE /\ colls' = colls \cup {coll}
               /\ ret' = Call("get_collection", 0, coll, Unit, Ok(coll))
               /\ UNCHANGED <<collection_meta, disk>>
     ELSE /\ collection_meta' = collection_meta \cup
               { [name |-> name, key_type |-> p.K, value_type |-> p.V] }
          /\ disk' = IF autocommit
                     THEN [disk EXCEPT !.collection_meta = collection_meta']
                     ELSE disk
          /\ colls' = colls \cup {coll}
          /\ ret' = Call("get_collection", 0, coll, Unit, Ok(coll))
  /\ UNCHANGED <<store, kv_store, autocommit, txs>>

\* Database::get_collection as it would be without the INSERT for an
\* unregistered name.
Database_get_collection_no_insert(name, p) ==
  /\ store.kind = "Database"
  /\ LET rows == { r \in collection_meta : r.name = name }
         coll == [name |-> name, K |-> p.K, V |-> p.V]
     IN
     IF rows # {}
     THEN \E row \in rows :
          IF row.key_type # p.K \/ row.value_type # p.V
          THEN /\ ret' = Call("get_collection", 0, coll, Unit,
                   Err([kind |-> "TypeMismatch",
                        expected_key |-> p.K, expected_value |-> p.V,
                        got_key |-> row.key_type,
                        got_value |-> row.value_type]))
               /\ UNCHANGED <<collection_meta, disk, colls>>
          ELSE /\ colls' = colls \cup {coll}
               /\ ret' = Call("get_collection", 0, coll, Unit, Ok(coll))
               /\ UNCHANGED <<collection_meta, disk>>
     ELSE /\ colls' = colls \cup {coll}
          /\ ret' = Call("get_collection", 0, coll, Unit, Ok(coll))
          /\ UNCHANGED <<collection_meta, disk>>
  /\ UNCHANGED <<store, kv_store, autocommit, txs>>

\* Database::get_collection::<K, V>(name)
Database_get_collection(name, p) ==
  /\ store.kind = "Database"
  /\ LET rows == { r \in collection_meta : r.name = name }
         coll == [name |-> name, K |-> p.K, V |-> p.V]
     IN
     IF rows # {}
     THEN \E row \in rows :
          IF row.key_type # p.K \/ row.value_type # p.V
          THEN /\ ret' = Call("get_collection", 0, coll, Unit,
                   Err([kind |-> "TypeMismatch",
                        expected_key |-> p.K, expected_value |-> p.V,
                        got_key |-> row.key_type,
                        got_value |-> row.value_type]))
               /\ UNCHANGED <<collection_meta, disk, colls>>
          ELSE /\ colls' = colls \cup {coll}
               /\ ret' = Call("get_collection", 0, coll, Unit, Ok(coll))
               /\ UNCHANGED <<collection_meta, disk>>
     ELSE /\ collection_meta' = collection_meta \cup
               { [name |-> name, key_type |-> p.K, value_type |-> p.V] }
          /\ disk' = IF autocommit
                     THEN [disk EXCEPT !.collection_meta = collection_meta']
                     ELSE disk
          /\ colls' = colls \cup {coll}
          /\ ret' = Call("get_collection", 0, coll, Unit, Ok(coll))
  /\ UNCHANGED <<store, kv_store, autocommit, txs>>

\* A finalized or dropped handle no longer refers to a Collection.
NoColl == [name |-> "", K |-> "", V |-> ""]

\* Collection::begin as it would be if a Transaction guard were built
\* before BEGIN ran: dropped on the failure, it would roll back the
\* outstanding engine transaction.
Collection_begin_guard_first(c) ==
  /\ store.kind = "Database"
  /\ c \in colls
  /\ \A t \in OpenTxs : txs[t].coll # c
  /\ Len(txs) < MaxTx
  /\ IF autocommit
     THEN /\ autocommit' = FALSE
          /\ txs' = Append(txs, [state |-> "Open", coll |-> c])
          /\ ret' = Call("begin", Len(txs) + 1, Unit, Unit, Ok(Unit))
          /\ UNCHANGED <<kv_store, collection_meta>>
     ELSE /\ ret' = Call("begin", 0, Unit, Unit, Err([kind |-> "SqliteError"]))
          /\ kv_store' = disk.kv_store
          /\ collection_meta' = disk.collection_meta
          /\ autocommit' = TRUE
          /\ UNCHANGED txs
  /\ UNCHANGED <<store, disk, colls>>

\* Collection::begin as it would be if the engine let a transaction start
\* inside another one.
Collection_begin_nested(c) ==
  /\ store.kind = "Database"
  /\ c \in colls
  /\ \A t \in OpenTxs : txs[t].coll # c
  /\ Len(txs) < MaxTx
  /\ autocommit' = FALSE
  /\ txs' = Append(txs, [state |-> "Open", coll |-> c])
  /\ ret' = Call("begin", Len(txs) + 1, Unit, Unit, Ok(Unit))
  /\ UNCHANGED <<store, kv_store, collection_meta, disk, colls>>

\* Collection::begin
Collection_begin(c) ==
  /\ store.kind = "Database"
  /\ c \in colls
  /\ \A t \in OpenTxs : txs[t].coll # c      \* &mut self is still borrowed
  /\ Len(txs) < MaxTx
  /\ IF autocommit
     THEN /\ autocommit' = FALSE
          /\ txs' = Append(txs, [state |-> "Open", coll |-> c])
          /\ ret' = Call("begin", Len(txs) + 1, Unit, Unit, Ok(Unit))
     ELSE /\ ret' = Call("begin", 0, Unit, Unit, Err([kind |-> "SqliteError"]))
          /\ UNCHANGED <<autocommit, txs>>
  /\ UNCHANGED <<store, kv_store, collection_meta, disk, colls>>

\* ------------------------------------------------------- CollectionTx
\* The Collection handle a live CollectionTx was begun from.
CollOf(t) == txs[t].coll

\* Rows of kv_store that belong to collection name.
RowsOf(name) == { r \in kv_store : r.collection = name }

\* A statement executed on the connection: it changes the working table,
\* and the committed one too when no engine transaction is open.
Execute(newkv) ==
  /\ kv_store' = newkv
  /\ disk' = IF autocommit THEN [disk EXCEPT !.kv_store = newkv] ELSE disk

\* The Vec a query_map loop collects from item = [row |-> decoded item], up
\* to order: decoded item |-> number of rows that gave it.
VecOf(item) ==
  LET items == { item[r] : r \in DOMAIN item } IN
  [ i \in items |-> Cardinality({ r \in DOMAIN item : item[r] = i }) ]

\* Transaction::commit returned Err as it would leave things if the handle
\* were dropped with DropBehavior::Ignore: the engine transaction stays.
Transaction_commit_Err_ignored(t) ==
  /\ t \in OpenTxs
  /\ txs' = [txs EXCEPT ![t] = [state |-> "RolledBack", coll |-> NoColl]]
  /\ ret' = [Finalize("commit", t, kv_store # disk.kv_store)
               EXCEPT !.res = Err([kind |-> "SqliteError"])]
  /\ UNCHANGED <<store, kv_store, collection_meta, disk, autocommit, colls>>

\* self.tx.commit()? when the engine refuses COMMIT: the error is returned
\* and self, consumed by the call, is dropped, so that rusqlite's
\* Transaction rolls back whatever the engine left open.
Transaction_commit_Err(t) ==
  /\ t \in OpenTxs
  /\ kv_store' = disk.kv_store
  /\ collection_meta' = disk.collection_meta
  /\ autocommit' = TRUE
  /\ txs' = [txs EXCEPT ![t] = [state |-> "RolledBack", coll |-> NoColl]]
  /\ ret' = [Finalize("commit", t, kv_store # disk.kv_store)
               EXCEPT !.res = Err([kind |-> "SqliteError"])]
  /\ UNCHANGED <<store, disk, colls>>

\* CollectionTx::commit as it would be if it took &mut self: the handle
\* stays usable.
CollectionTx_commit_keeps_handle(t) ==
  /\ store.kind = "Database"
  /\ \/ /\ t \in OpenTxs
        /\ disk' = [kv_store |-> kv_store,
                    collection_meta |-> collection_meta]
        /\ autocommit' = TRUE
        /\ ret' = Finalize("commit", t, kv_store # disk.kv_store)
        /\ UNCHANGED <<store, kv_store, collection_meta, colls, txs>>
     \/ Transaction_commit_Err(t)

\* CollectionTx::commit as it would be if it ended the engine transaction
\* with ROLLBACK.
CollectionTx_commit_rolls_back(t) ==
  /\ store.kind = "Database"
  /\ \/ /\ t \in OpenTxs
        /\ kv_store' = disk.kv_store
        /\ collection_meta' = disk.collection_meta
        /\ autocommit' = TRUE
        /\ txs' = [txs EXCEPT ![t] =
                     [state |-> "Committed", coll |-> NoColl]]
        /\ ret' = Finalize("commit", t, kv_store # disk.kv_store)
        /\ UNCHANGED <<store, disk, colls>>
     \/ Transaction_commit_Err(t)

\* CollectionTx::commit
CollectionTx_commit(t) ==
  /\ store.kind = "Database"
  /\ \/ /\ t \in OpenTxs
        /\ disk' = [kv_store |-> kv_store,
                    collection_meta |-> collection_meta]
        /\ autocommit' = TRUE
        /\ txs' = [txs EXCEPT ![t] =
                     [state |-> "Committed", coll |-> NoColl]]
        /\ ret' = Finalize("commit", t, kv_store # disk.kv_store)
        /\ UNCHANGED <<store, kv_store, collection_meta, colls>>
     \/ Transaction_commit_Err(t)

\* CollectionTx::rollback as it would be if it ended the engine transaction
\* with COMMIT.
CollectionTx_rollback_commits(t) ==
  /\ store.kind = "Database"
  /\ t \in OpenTxs
  /\ disk' = [kv_store |-> kv_store, collection_meta |-> collection_meta]
  /\ autocommit' = TRUE
  /\ txs' = [txs EXCEPT ![t] = [state |-> "RolledBack", coll |-> NoColl]]
  /\ ret' = Finalize("rollback", t, kv_store # disk.kv_store)
  /\ UNCHANGED <<store, kv_store, collection_meta, colls>>

\* CollectionTx::rollback
CollectionTx_rollback(t) ==
  /\ store.kind = "Database"
  /\ t \in OpenTxs
  /\ kv_store' = disk.kv_store
  /\ collection_meta' = disk.collection_meta
  /\ autocommit' = TRUE
  /\ txs' = [txs EXCEPT ![t] = [state |-> "RolledBack", coll |-> NoColl]]
  /\ ret' = Finalize("rollback", t, kv_store # disk.kv_store)
  /\ UNCHANGED <<store, disk, colls>>

\* CollectionTx::cancel
CollectionTx_cancel(t) ==
  /\ CollectionTx_rollback(t)

\* A CollectionTx going out of scope: rusqlite's Transaction rolls back.
CollectionTx_drop(t) ==
  /\ store.kind = "Database"
  /\ t \in OpenTxs
  /\ kv_store' = IF autocommit THEN kv_store ELSE disk.kv_store
  /\ collection_meta' =
       IF autocommit THEN collection_meta ELSE disk.collection_meta
  /\ autocommit' = TRUE
  /\ txs' = [txs EXCEPT ![t] = [state |-> "RolledBack", coll |-> NoColl]]
  /\ ret' = Finalize("drop", t, kv_store # disk.kv_store)
  /\ UNCHANGED <<store, disk, colls>>

\* CollectionTx::contains
CollectionTx_contains(t, key) ==
  /\ store.kind = "Database"
  /\ t \in OpenTxs
  /\ key \in ValuesOf(CollOf(t).K)
  /\ LET key_bytes == to_stdvec(key)
         exists == \E r \in RowsOf(CollOf(t).name) : r.key = key_bytes
     IN ret' = Call("contains", t, key, Unit, Ok(exists))
  /\ UNCHANGED <<store, kv_store, collection_meta, disk, autocommit,
                 colls, txs>>

\* CollectionTx::get
CollectionTx_get(t, key) ==
  /\ store.kind = "Database"
  /\ t \in OpenTxs
  /\ key \in ValuesOf(CollOf(t).K)
  /\ LET key_bytes == to_stdvec(key)
         rows == { r \in RowsOf(CollOf(t).name) : r.key = key_bytes }
     IN IF rows # {}
        THEN \E row \in rows :
               LET value == from_bytes(CollOf(t).V, row.value) IN
               ret' = Call("get", t, key, Unit,
                           IF value.ok THEN Ok(value.val)
                           ELSE Err([kind |-> "SerializationError"]))
        ELSE ret' = Call("get", t, key, Unit, Ok(None))
  /\ UNCHANGED <<store, kv_store, collection_meta, disk, autocommit,
                 colls, txs>>

\* CollectionTx::set as it would be with the key bytes bound to the value
\* parameter of the statement.
CollectionTx_set_swapped(t, key, val) ==
  /\ store.kind = "Database"
  /\ t \in OpenTxs
  /\ key \in ValuesOf(CollOf(t).K)
  /\ val \in ValuesOf(CollOf(t).V)
  /\ LET key_bytes == to_stdvec(key)
         name == CollOf(t).name
     IN Execute({ r \in kv_store :
                    ~(r.collection = name /\ r.key = key_bytes) }
                \cup { [collection |-> name, key |-> key_bytes,
                        value |-> key_bytes] })
  /\ ret' = Call("set", t, key, val, Ok(Unit))
  /\ UNCHANGED <<store, collection_meta, autocommit, colls, txs>>

\* CollectionTx::set as it would be with a plain INSERT on a table that has
\* no primary key: the old row stays.
CollectionTx_set_keeps_old(t, key, val) ==
  /\ store.kind = "Database"
  /\ t \in OpenTxs
  /\ key \in ValuesOf(CollOf(t).K)
  /\ val \in ValuesOf(CollOf(t).V)
  /\ Execute(kv_store \cup { [collection |-> CollOf(t).name,
                              key |-> to_stdvec(key),
                              value |-> to_stdvec(val)] })
  /\ ret' = Call("set", t, key, val, Ok(Unit))
  /\ UNCHANGED <<store, collection_meta, autocommit, colls, txs>>

\* CollectionTx::set
CollectionTx_set(t, key, val) ==
  /\ store.kind = "Database"
  /\ t \in OpenTxs
  /\ key \in ValuesOf(CollOf(t).K)
  /\ val \in ValuesOf(CollOf(t).V)
  /\ LET key_bytes == to_stdvec(key)
         val_bytes == to_stdvec(val)
         name == CollOf(t).name
     IN Execute({ r \in kv_store :
                    ~(r.collection = name /\ r.key = key_bytes) }
                \cup { [collection |-> name, key |-> key_bytes,
                        value |-> val_bytes] })
  /\ ret' = Call("set", t, key, val, Ok(Unit))
  /\ UNCHANGED <<store, collection_meta, autocommit, colls, txs>>

\* CollectionTx::put as it would be on a table whose primary key is the
\* key column alone.
CollectionTx_put_key_only(t, key, val) ==
  /\ store.kind = "Database"
  /\ t \in OpenTxs
  /\ key \in ValuesOf(CollOf(t).K)
  /\ val \in ValuesOf(CollOf(t).V)
  /\ LET key_bytes == to_stdvec(key)
         val_bytes == to_stdvec(val)
         name == CollOf(t).name
     IN IF \E r \in kv_store : r.key = key_bytes
        THEN /\ ret' = Call("put", t, key, val,
                            Err([kind |-> "KeyAlreadyExists"]))
             /\ UNCHANGED <<kv_store, disk>>
        ELSE /\ Execute(kv_store \cup
                        { [collection |-> name, key |-> key_bytes,
                           value |-> val_bytes] })
             /\ ret' = Call("put", t, key, val, Ok(Unit))
  /\ UNCHANGED <<store, collection_meta, autocommit, colls, txs>>

\* CollectionTx::put as it would be with INSERT OR ROLLBACK: a conflict
\* ends the engine transaction and discards the earlier writes.
CollectionTx_put_or_rollback(t, key, val) ==
  /\ store.kind = "Database"
  /\ t \in OpenTxs
  /\ key \in ValuesOf(CollOf(t).K)
  /\ val \in ValuesOf(CollOf(t).V)
  /\ LET key_bytes == to_stdvec(key)
         val_bytes == to_stdvec(val)
         name == CollOf(t).name
     IN IF \E r \in kv_store : r.collection = name /\ r.key = key_bytes
        THEN /\ ret' = Call("put", t, key, val,
                            Err([kind |-> "KeyAlreadyExists"]))
             /\ kv_store' = disk.kv_store
             /\ collection_meta' = disk.collection_meta
             /\ autocommit' = TRUE
             /\ UNCHANGED disk
        ELSE /\ Execute(kv_store \cup
                        { [collection |-> name, key |-> key_bytes,
                           value |-> val_bytes] })
             /\ ret' = Call("put", t, key, val, Ok(Unit))
             /\ UNCHANGED <<collection_meta, autocommit>>
  /\ UNCHANGED <<store, colls, txs>>

\* CollectionTx::put
CollectionTx_put(t, key, val) ==
  /\ store.kind = "Database"
  /\ t \in OpenTxs
  /\ key \in ValuesOf(CollOf(t).K)
  /\ val \in ValuesOf(CollOf(t).V)
  /\ LET key_bytes == to_stdvec(key)
         val_bytes == to_stdvec(val)
         name == CollOf(t).name
     IN IF \E r \in kv_store : r.collection = name /\ r.key = key_bytes
        THEN /\ ret' = Call("put", t, key, val,
                            Err([kind |-> "KeyAlreadyExists"]))
             /\ UNCHANGED <<kv_store, disk>>
        ELSE /\ Execute(kv_store \cup
                        { [collection |-> name, key |-> key_bytes,
                           value |-> val_bytes] })
             /\ ret' = Call("put", t, key, val, Ok(Unit))
  /\ UNCHANGED <<store, collection_meta, autocommit, colls, txs>>

\* CollectionTx::del as it would be without the key in its WHERE clause.
CollectionTx_del_all(t, key) ==
  /\ store.kind = "Database"
  /\ t \in OpenTxs
  /\ key \in ValuesOf(CollOf(t).K)
  /\ Execute({ r \in kv_store : r.collection # CollOf(t).name })
  /\ ret' = Call("del", t, key, Unit, Ok(Unit))
  /\ UNCHANGED <<store, collection_meta, autocommit, colls, txs>>

\* CollectionTx::del
CollectionTx_del(t, key) ==
  /\ store.kind = "Database"
  /\ t \in OpenTxs
  /\ key \in ValuesOf(CollOf(t).K)
  /\ LET key_bytes == to_stdvec(key)
         name == CollOf(t).name
     IN Execute({ r \in kv_store :
                    ~(r.collection = name /\ r.key = key_bytes) })
  /\ ret' = Call("del", t, key, Unit, Ok(Unit))
  /\ UNCHANGED <<store, collection_meta, autocommit, colls, txs>>

\* CollectionTx::keys
CollectionTx_keys(t) ==
  /\ store.kind = "Database"
  /\ t \in OpenTxs
  /\ LET rows == RowsOf(CollOf(t).name)
         key(r) == from_bytes(CollOf(t).K, r.key)
         Item(r) == key(r).val
     IN ret' = Call("keys", t, Unit, Unit,
                    IF \E r \in rows : ~key(r).ok
                    THEN Err([kind |-> "SerializationError"])
                    ELSE Ok(VecOf([r \in rows |-> Item(r)])))
  /\ UNCHANGED <<store, kv_store, collection_meta, disk, autocommit,
                 colls, txs>>

\* CollectionTx::scan as it would be without the WHERE clause on the
\* collection column.
CollectionTx_scan_all(t) ==
  /\ store.kind = "Database"
  /\ t \in OpenTxs
  /\ LET rows == kv_store
         key(r) == from_bytes(CollOf(t).K, r.key)
         value(r) == from_bytes(CollOf(t).V, r.value)
         Item(r) == <<key(r).val, value(r).val>>
     IN ret' = Call("scan", t, Unit, Unit,
                    IF \E r \in rows : ~key(r).ok \/ ~value(r).ok
                    THEN Err([kind |-> "SerializationError"])
                    ELSE Ok(VecOf([r \in rows |-> Item(r)])))
  /\ UNCHANGED <<store, kv_store, collection_meta, disk, autocommit,
                 colls, txs>>

\* CollectionTx::scan
CollectionTx_scan(t) ==
  /\ store.kind = "Database"
  /\ t \in OpenTxs
  /\ LET rows == RowsOf(CollOf(t).name)
         key(r) == from_bytes(CollOf(t).K, r.key)
         value(r) == from_bytes(CollOf(t).V, r.value)
         Item(r) == <<key(r).val, value(r).val>>
     IN ret' = Call("scan", t, Unit, Unit,
                    IF \E r \in rows : ~key(r).ok \/ ~value(r).ok
                    THEN Err([kind |-> "SerializationError"])
                    ELSE Ok(VecOf([r \in rows |-> Item(r)])))
  /\ UNCHANGED <<store, kv_store, collection_meta, disk, autocommit,
                 colls, txs>>

\* CollectionTx::clear as it would be if it also deleted the collection's
\* row of collection_meta.
CollectionTx_clear_unregisters(t) ==
  /\ store.kind = "Database"
  /\ t \in OpenTxs
  /\ Execute({ r \in kv_store : r.collection # CollOf(t).name })
  /\ collection_meta' = { m \in collection_meta : m.name # CollOf(t).name }
  /\ ret' = Call("clear", t, Unit, Unit, Ok(Unit))
  /\ UNCHANGED <<store, autocommit, colls, txs>>

\* CollectionTx::clear as it would be without the WHERE clause.
CollectionTx_clear_all(t) ==
  /\ store.kind = "Database"
  /\ t \in OpenTxs
  /\ Execute({})
  /\ ret' = Call("clear", t, Unit, Unit, Ok(Unit))
  /\ UNCHANGED <<store, collection_meta, autocommit, colls, txs>>

\* CollectionTx::clear
CollectionTx_clear(t) ==
  /\ store.kind = "Database"
  /\ t \in OpenTxs
  /\ Execute({ r \in kv_store : r.collection # CollOf(t).name })
  /\ ret' = Call("clear", t, Unit, Unit, Ok(Unit))
  /\ UNCHANGED <<store, collection_meta, autocommit, colls, txs>>

\* CollectionTx::count
CollectionTx_count(t) ==
  /\ store.kind = "Database"
  /\ t \in OpenTxs
  /\ ret' = Call("count", t, Unit, Unit,
                 Ok(Cardinality(RowsOf(CollOf(t).name))))
  /\ UNCHANGED <<store, kv_store, collection_meta, disk, autocommit,
                 colls, txs>>

\* ------------------------------------------------------------ Db and Tx
\* Db::begin.  Connection::transaction takes &mut Connection, so no Tx of
\* this Db is alive when it is called.
Db_begin ==
  /\ store.kind = "Db"
  /\ OpenTxs = {}
  /\ Len(txs) < MaxTx
  /\ IF autocommit
     THEN /\ autocommit' = FALSE
          /\ txs' = Append(txs, [state |-> "Open", coll |-> NoColl])
          /\ ret' = Call("begin", Len(txs) + 1, Unit, Unit, Ok(Unit))
     ELSE /\ ret' = Call("begin", 0, Unit, Unit, Err([kind |-> "SqliteError"]))
          /\ UNCHANGED <<autocommit, txs>>
  /\ UNCHANGED <<store, kv_store, collection_meta, disk, colls>>

\* Tx::commit
Tx_commit(t) ==
  /\ store.kind = "Db"
  /\ \/ /\ t \in OpenTxs
        /\ disk' = [kv_store |-> kv_store,
                    collection_meta |-> collection_meta]
        /\ autocommit' = TRUE
        /\ txs' = [txs EXCEPT ![t] =
                     [state |-> "Committed", coll |-> NoColl]]
        /\ ret' = Finalize("commit", t, kv_store # disk.kv_store)
        /\ UNCHANGED <<store, kv_store, collection_meta, colls>>
     \/ Transaction_commit_Err(t)

\* Tx::rollback
Tx_rollback(t) ==
  /\ store.kind = "Db"
  /\ t \in OpenTxs
  /\ kv_store' = disk.kv_store
  /\ collection_meta' = disk.collection_meta
  /\ autocommit' = TRUE
  /\ txs' = [txs EXCEPT ![t] = [state |-> "RolledBack", coll |-> NoColl]]
  /\ ret' = Finalize("rollback", t, kv_store # disk.kv_store)
  /\ UNCHANGED <<store, disk, colls>>

\* Tx::cancel
Tx_cancel(t) ==
  /\ Tx_rollback(t)

\* A Tx going out of scope: rusqlite's Transaction rolls back.
Tx_drop(t) ==
  /\ store.kind = "Db"
  /\ t \in OpenTxs
  /\ kv_store' = IF autocommit THEN kv_store ELSE disk.kv_store
  /\ collection_meta' =
       IF autocommit THEN collection_meta ELSE disk.collection_meta
  /\ autocommit' = TRUE
  /\ txs' = [txs EXCEPT ![t] = [state |-> "RolledBack", coll |-> NoColl]]
  /\ ret' = Finalize("drop", t, kv_store # disk.kv_store)
  /\ UNCHANGED <<store, disk, colls>>

\* Tx::contains
Tx_contains(t, key) ==
  /\ store.kind = "Db"
  /\ t \in OpenTxs
  /\ key \in ValuesOf(store.K)
  /\ LET key_bytes == to_stdvec(key)
         exists == \E r \in kv_store : r.key = key_bytes
     IN ret' = Call("contains", t, key, Unit, Ok(exists))
  /\ UNCHANGED <<store, kv_store, collection_meta, disk, autocommit,
                 colls, txs>>

\* Tx::get as it would be if it read the committed rows instead of the
\* transaction's.
Tx_get_committed(t, key) ==
  /\ store.kind = "Db"
  /\ t \in OpenTxs
  /\ key \in ValuesOf(store.K)
  /\ LET key_bytes == to_stdvec(key)
         rows == { r \in disk.kv_store : r.key = key_bytes }
     IN IF rows # {}
        THEN \E row \in rows :
               LET value == from_bytes(store.V, row.value) IN
               ret' = Call("get", t, key, Unit,
                           IF value.ok THEN Ok(value.val)
                           ELSE Err([kind |-> "SerializationError"]))
        ELSE ret' = Call("get", t, key, Unit, Ok(None))
  /\ UNCHANGED <<store, kv_store, collection_meta, disk, autocommit,
                 colls, txs>>

\* Tx::get as it would be if it deleted an entry whose value fails to
\* decode.
Tx_get_purges(t, key) ==
  /\ store.kind = "Db"
  /\ t \in OpenTxs
  /\ key \in ValuesOf(store.K)
  /\ LET key_bytes == to_stdvec(key)
         rows == { r \in kv_store : r.key = key_bytes }
     IN IF rows # {}
        THEN \E row \in rows :
               LET value == from_bytes(store.V, row.value) IN
               /\ ret' = Call("get", t, key, Unit,
                              IF value.ok THEN Ok(value.val)
                              ELSE Err([kind |-> "SerializationError"]))
               /\ Execute(IF value.ok THEN kv_store ELSE kv_store \ {row})
        ELSE /\ ret' = Call("get", t, key, Unit, Ok(None))
             /\ UNCHANGED <<kv_store, disk>>
  /\ UNCHANGED <<store, collection_meta, autocommit, colls, txs>>

\* Tx::get
Tx_get(t, key) ==
  /\ store.kind = "Db"
  /\ t \in OpenTxs
  /\ key \in ValuesOf(store.K)
  /\ LET key_bytes == to_stdvec(key)
         rows == { r \in kv_store : r.key = key_bytes }
     IN IF rows # {}
        THEN \E row \in rows :
               LET value == from_bytes(store.V, row.value) IN
               ret' = Call("get", t, key, Unit,
                           IF value.ok THEN Ok(value.val)
                           ELSE Err([kind |-> "SerializationError"]))
        ELSE ret' = Call("get", t, key, Unit, Ok(None))
  /\ UNCHANGED <<store, kv_store, collection_meta, disk, autocommit,
                 colls, txs>>

\* Tx::set as it would be with a plain INSERT on a table without a primary
\* key: the old row stays.
Tx_set_keeps_old(t, key, val) ==
  /\ store.kind = "Db"
  /\ t \in OpenTxs
  /\ key \in ValuesOf(store.K)
  /\ val \in ValuesOf(store.V)
  /\ Execute(kv_store \cup
             { [key |-> to_stdvec(key), value |-> to_stdvec(val)] })
  /\ ret' = Call("set", t, key, val, Ok(Unit))
  /\ UNCHANGED <<store, collection_meta, autocommit, colls, txs>>

\* Tx::set
Tx_set(t, key, val) ==
  /\ store.kind = "Db"
  /\ t \in OpenTxs
  /\ key \in ValuesOf(store.K)
  /\ val \in ValuesOf(store.V)
  /\ LET key_bytes == to_stdvec(key)
         val_bytes == to_stdvec(val)
     IN Execute({ r \in kv_store : r.key # key_bytes }
                \cup { [key |-> key_bytes, value |-> val_bytes] })
  /\ ret' = Call("set", t, key, val, Ok(Unit))
  /\ UNCHANGED <<store, collection_meta, autocommit, colls, txs>>

\* Tx::put as it would be with INSERT OR REPLACE in place of INSERT.
Tx_put_replaces(t, key, val) ==
  /\ store.kind = "Db"
  /\ t \in OpenTxs
  /\ key \in ValuesOf(store.K)
  /\ val \in ValuesOf(store.V)
  /\ LET key_bytes == to_stdvec(key)
         val_bytes == to_stdvec(val)
     IN Execute({ r \in kv_store : r.key # key_bytes }
                \cup { [key |-> key_bytes, value |-> val_bytes] })
  /\ ret' = Call("put", t, key, val, Ok(Unit))
  /\ UNCHANGED <<store, collection_meta, autocommit, colls, txs>>

\* Tx::put
Tx_put(t, key, val) ==
  /\ store.kind = "Db"
  /\ t \in OpenTxs
  /\ key \in ValuesOf(store.K)
  /\ val \in ValuesOf(store.V)
  /\ LET key_bytes == to_stdvec(key)
         val_bytes == to_stdvec(val)
     IN IF \E r \in kv_store : r.key = key_bytes
        THEN /\ ret' = Call("put", t, key, val,
                            Err([kind |-> "KeyAlreadyExists"]))
             /\ UNCHANGED <<kv_store, disk>>
        ELSE /\ Execute(kv_store \cup
                        { [key |-> key_bytes, value |-> val_bytes] })
             /\ ret' = Call("put", t, key, val, Ok(Unit))
  /\ UNCHANGED <<store, collection_meta, autocommit, colls, txs>>

\* Tx::del
Tx_del(t, key) ==
  /\ store.kind = "Db"
  /\ t \in OpenTxs
  /\ key \in ValuesOf(store.K)
  /\ LET key_bytes == to_stdvec(key)
     IN Execute({ r \in kv_store : r.key # key_bytes })
  /\ ret' = Call("del", t, key, Unit, Ok(Unit))
  /\ UNCHANGED <<store, collection_meta, autocommit, colls, txs>>

\* Tx::keys
Tx_keys(t) ==
  /\ store.kind = "Db"
  /\ t \in OpenTxs
  /\ LET key(r) == from_bytes(store.K, r.key)
         Item(r) == key(r).val
     IN ret' = Call("keys", t, Unit, Unit,
                    IF \E r \in kv_store : ~key(r).ok
                    THEN Err([kind |-> "SerializationError"])
                    ELSE Ok(VecOf([r \in kv_store |-> Item(r)])))
  /\ UNCHANGED <<store, kv_store, collection_meta, disk, autocommit,
                 colls, txs>>

\* Tx::scan as it would be if rows that fail to decode were skipped.
Tx_scan_skips(t) ==
  /\ store.kind = "Db"
  /\ t \in OpenTxs
  /\ LET key(r) == from_bytes(store.K, r.key)
         value(r) == from_bytes(store.V, r.value)
         Item(r) == <<key(r).val, value(r).val>>
         rows == { r \in kv_store : key(r).ok /\ value(r).ok }
     IN ret' = Call("scan", t, Unit, Unit,
                    Ok(VecOf([r \in rows |-> Item(r)])))
  /\ UNCHANGED <<store, kv_store, collection_meta, disk, autocommit,
                 colls, txs>>

\* Tx::scan
Tx_scan(t) ==
  /\ store.kind = "Db"
  /\ t \in OpenTxs
  /\ LET key(r) == from_bytes(store.K, r.key)
         value(r) == from_bytes(store.V, r.value)
         Item(r) == <<key(r).val, value(r).val>>
     IN ret' = Call("scan", t, Unit, Unit,
                    IF \E r \in kv_store : ~key(r).ok \/ ~value(r).ok
                    THEN Err([kind |-> "SerializationError"])
                    ELSE Ok(VecOf([r \in kv_store |-> Item(r)])))
  /\ UNCHANGED <<store, kv_store, collection_meta, disk, autocommit,
                 colls, txs>>

\* Db::new::<K, V> on the backing file of a Db that was closed: every Tx
\* borrowed from the old Db is gone; CREATE TABLE IF NOT EXISTS finds the
\* table, and the new connection sees the committed rows.
Db_reopen(p) ==
  /\ store.kind = "Db"
  /\ OpenTxs = {}
  /\ store' = [kind |-> "Db", K |-> p.K, V |-> p.V]
  /\ kv_store' = disk.kv_store
  /\ collection_meta' = disk.collection_meta
  /\ autocommit' = TRUE
  /\ ret' = Call("new", 0, Unit, Unit, Ok(Unit))
  /\ UNCHANGED <<disk, colls, txs>>

\* Database::new on an existing file as it would be if it dropped and
\* recreated its tables.
Database_reopen_recreates ==
  /\ store.kind = "Database"
  /\ OpenTxs = {}
  /\ colls' = {}
  /\ kv_store' = {}
  /\ collection_meta' = {}
  /\ disk' = [kv_store |-> {}, collection_meta |-> {}]
  /\ autocommit' = TRUE
  /\ ret' = Call("new", 0, Unit, Unit, Ok(Unit))
  /\ UNCHANGED <<store, txs>>

\* Database::new on the backing file of a Database that was closed, that
\* is, whose Collection handles (they share the connection) are all gone.
Database_reopen ==
  /\ store.kind = "Database"
  /\ OpenTxs = {}
  /\ colls' = {}
  /\ kv_store' = disk.kv_store
  /\ collection_meta' = disk.collection_meta
  /\ autocommit' = TRUE
  /\ ret' = Call("new", 0, Unit, Unit, Ok(Unit))
  /\ UNCHANGED <<store, disk, txs>>

\* Every Collection handle the program may hold.
AllColls == { [name |-> name, K |-> p.K, V |-> p.V] :
              name \in Names, p \in TypePairs }

\* Every key or value the program may pass.
AllValues == UNION { ValuesOf(type) : type \in {"u32", "String"} }

Next ==
  \/ Database_reopen
  \/ \E p \in DbTypePairs : Db_reopen(p)
  \/ \E name \in Names, p \in TypePairs : Database_get_collection(name, p)
  \/ \E c \in AllColls : Collection_begin(c)
  \/ \E t \in 1..MaxTx : CollectionTx_commit(t)
  \/ \E t \in 1..MaxTx : CollectionTx_rollback(t)
  \/ \E t \in 1..MaxTx : CollectionTx_cancel(t)
  \/ \E t \in 1..MaxTx : CollectionTx_drop(t)
  \/ \E t \in 1..MaxTx, key \in AllValues : CollectionTx_contains(t, key)
  \/ \E t \in 1..MaxTx, key \in AllValues : CollectionTx_get(t, key)
  \/ \E t \in 1..MaxTx, key \in AllValues, val \in AllValues :
       CollectionTx_set(t, key, val)
  \/ \E t \in 1..MaxTx, key \in AllValues, val \in AllValues :
       CollectionTx_put(t, key, val)
  \/ \E t \in 1..MaxTx, key \in AllValues : CollectionTx_del(t, key)
  \/ \E t \in 1..MaxTx : CollectionTx_keys(t)
  \/ \E t \in 1..MaxTx : CollectionTx_scan(t)
  \/ \E t \in 1..MaxTx : CollectionTx_clear(t)
  \/ \E t \in 1..MaxTx : CollectionTx_count(t)
  \/ Db_begin
  \/ \E t \in 1..MaxTx : Tx_commit(t)
  \/ \E t \in 1..MaxTx : Tx_rollback(t)
  \/ \E t \in 1..MaxTx : Tx_cancel(t)
  \/ \E t \in 1..MaxTx : Tx_drop(t)
  \/ \E t \in 1..MaxTx, key \in AllValues : Tx_contains(t, key)
  \/ \E t \in 1..MaxTx, key \in AllValues : Tx_get(t, key)
  \/ \E t \in 1..MaxTx, key \in AllValues, val \in AllValues :
       Tx_set(t, key, val)
  \/ \E t \in 1..MaxTx, key \in AllValues, val \in AllValues :
       Tx_put(t, key, val)
  \/ \E t \in 1..MaxTx, key \in AllValues : Tx_del(t, key)
  \/ \E t \in 1..MaxTx : Tx_keys(t)
  \/ \E t \in 1..MaxTx : Tx_scan(t)

Spec == Init /\ [][Next]_vars

\* A live handle going out of scope.
Drop == \E t \in 1..MaxTx : CollectionTx_drop(t) \/ Tx_drop(t)

\* The program does not keep a transaction handle forever: a handle that is
\* not consumed by commit, rollback or cancel reaches the end of its scope.
LiveSpec == Spec /\ WF_vars(Drop)

\* ============================================================ properties
\* The rows a transaction handle t works on: its collection's rows of the
\* given table contents, or the whole table for a Tx of a Db.
ScopeOf(rows, t) ==
  IF store.kind = "Db" THEN rows
  ELSE { r \in rows : r.collection = txs[t].coll.name }

\* The rows of a table that hold key bytes kb.
Entry(rows, kb) == { r \in rows : r.key = kb }

\* C1 (rollback isolation): while a transaction is open and when it ends
\* other than by a successful commit, the committed entries stay what they
\* were when it began; once it is rolled back, cancelled or dropped (a
\* failed commit drops it) the connection sees exactly those committed
\* entries, and so does every transaction begun afterwards: none of the
\* discarded writes is visible.
C1_RollbackIsolation ==
  [][ /\ \A t \in OpenTxs :
           /\ txs'[t].state # "Committed" => disk'.kv_store = disk.kv_store
           /\ txs'[t].state = "RolledBack" =>
                /\ kv_store' = disk.kv_store
                /\ \/ ret'.op \in {"rollback", "drop"}
                   \/ ret'.op = "commit" /\ ret'.res.tag = "Err"
      /\ Len(txs') > Len(txs) => kv_store' = disk'.kv_store ]_vars

\* C1 witness: a handle holding uncommitted writes has just been rolled back
\* (or dropped) over a non-empty committed store.
C1_Witness ==
  /\ ret.op \in {"rollback", "drop"}
  /\ ret.dirty
  /\ disk.kv_store # {}
  /\ kv_store = disk.kv_store
\* The value type a transaction handle t decodes with.
ValueTypeOf(t) == IF store.kind = "Db" THEN store.V ELSE txs[t].coll.V

\* C2 (insert-only conflict): put(k, v) on a key that has an entry in the
\* transaction's scope returns KeyAlreadyExists and changes nothing (the
\* entry, the rest of the store and the committed state stay as they were,
\* the handle stays open); put on an absent key returns success and adds
\* exactly the entry (k, v).
C2_InsertOnlyConflict ==
  [][ ret'.op = "put" =>
        LET t == ret'.tx
            kb == to_stdvec(ret'.key)
            vb == to_stdvec(ret'.val)
        IN IF Entry(ScopeOf(kv_store, t), kb) # {}
           THEN /\ ret'.res = Err([kind |-> "KeyAlreadyExists"])
                /\ kv_store' = kv_store
                /\ disk' = disk
                /\ t \in OpenTxs'
           ELSE /\ ret'.res = Ok(Unit)
                /\ Cardinality(Entry(ScopeOf(kv_store', t), kb)) = 1
                /\ \A r \in Entry(ScopeOf(kv_store', t), kb) : r.value = vb
                /\ kv_store' \ Entry(ScopeOf(kv_store', t), kb) = kv_store
      ]_vars

\* C2 witness: put(k, v2) was just rejected with KeyAlreadyExists while the
\* committed entry of k, still in the handle's view, holds another value v1.
C2_Witness ==
  /\ ret.op = "put"
  /\ ret.res = Err([kind |-> "KeyAlreadyExists"])
  /\ ret.tx \in OpenTxs
  /\ \E r \in Entry(ScopeOf(kv_store, ret.tx), to_stdvec(ret.key)) :
       /\ r.value # to_stdvec(ret.val)
       /\ r \in disk.kv_store

\* C3 (round trip): a successful put(k, v) or set(k, v) leaves for k an
\* entry that decodes, as the handle's value type, to exactly v; a
\* successful commit makes the committed entries equal to what the handle
\* saw; a transaction
\* begun afterwards sees the committed entries; and get(k) returns the
\* decoded value of the entry of k in scope, or absence when there is none.
C3_RoundTrip ==
  [][ /\ (ret'.op \in {"set", "put"} /\ ret'.res = Ok(Unit)) =>
           LET rows == Entry(ScopeOf(kv_store', ret'.tx), to_stdvec(ret'.key))
           IN /\ rows # {}
              /\ \A r \in rows :
                   from_bytes(ValueTypeOf(ret'.tx), r.value) =
                     [ok |-> TRUE, val |-> ret'.val]
      /\ (ret'.op = "commit" /\ ret'.res = Ok(Unit)) =>
           /\ disk'.kv_store = kv_store
           /\ kv_store' = kv_store
      /\ (ret'.op = "begin" /\ ret'.res = Ok(Unit)) =>
           kv_store' = disk.kv_store
      /\ ret'.op = "get" =>
           LET rows == Entry(ScopeOf(kv_store, ret'.tx), to_stdvec(ret'.key))
           IN IF rows = {} THEN ret'.res = Ok(None)
              ELSE \E r \in rows :
                     LET d == from_bytes(ValueTypeOf(ret'.tx), r.value)
                     IN ret'.res = IF d.ok THEN Ok(d.val)
                                   ELSE Err([kind |-> "SerializationError"])
    ]_vars

\* C3 witness: a newly opened transaction (it has changed nothing) has just
\* read with get a multi-byte value that an earlier transaction committed.
C3_Witness ==
  /\ ret.op = "get"
  /\ ret.res = Ok(U32(300))
  /\ ret.tx \in OpenTxs
  /\ ret.tx > 1
  /\ kv_store = disk.kv_store
  /\ txs[1].state = "Committed"

\* C4 (upsert): set(k, v) always returns success; afterwards the scope holds
\* exactly one entry for k, with value v; every other entry, in and out of
\* scope, is unchanged; and the number of entries in scope grows by one
\* exactly when k had no entry.
C4_Upsert ==
  [][ ret'.op = "set" =>
        LET t == ret'.tx
            kb == to_stdvec(ret'.key)
            vb == to_stdvec(ret'.val)
            old == ScopeOf(kv_store, t)
            new == ScopeOf(kv_store', t)
        IN /\ ret'.res = Ok(Unit)
           /\ Cardinality(Entry(new, kb)) = 1
           /\ \A r \in Entry(new, kb) : r.value = vb
           /\ new \ Entry(new, kb) = old \ Entry(old, kb)
           /\ kv_store' \ new = kv_store \ old
           /\ Cardinality(new) =
                Cardinality(old) + (IF Entry(old, kb) = {} THEN 1 ELSE 0)
      ]_vars

\* C4 witness: set(k, v2) has just replaced, in the handle's view, the
\* committed entry of k that holds another value v1, next to another entry.
C4_Witness ==
  /\ ret.op = "set"
  /\ ret.tx \in OpenTxs
  /\ \E r \in Entry(ScopeOf(disk.kv_store, ret.tx), to_stdvec(ret.key)) :
       r.value # to_stdvec(ret.val)
  /\ Cardinality(ScopeOf(kv_store, ret.tx)) = 2
  /\ Cardinality(ScopeOf(disk.kv_store, ret.tx)) = 2

\* C5 (type-signature enforcement): get_collection for a name whose
\* registered signatures differ from the requested ones on the key side, on
\* the value side or on both returns TypeMismatch with the requested
\* signatures as expected and the stored ones as got, hands out no handle
\* and changes neither the registry nor any entry.
C5_TypeMismatch ==
  [][ ret'.op = "get_collection" =>
        \A row \in collection_meta :
          (/\ row.name = ret'.key.name
           /\ (row.key_type # ret'.key.K \/ row.value_type # ret'.key.V)) =>
            /\ ret'.res = Err([kind |-> "TypeMismatch",
                               expected_key |-> ret'.key.K,
                               expected_value |-> ret'.key.V,
                               got_key |-> row.key_type,
                               got_value |-> row.value_type])
            /\ colls' = colls
            /\ collection_meta' = collection_meta
            /\ kv_store' = kv_store
            /\ disk' = disk
            /\ txs' = txs
      ]_vars

\* C5 witness: a request that differs from the committed registration on
\* the value side only has just been rejected, over a store with entries.
C5_Witness ==
  /\ ret.op = "get_collection"
  /\ ret.res.tag = "Err"
  /\ ret.res.v.expected_key = ret.res.v.got_key
  /\ ret.res.v.expected_value # ret.res.v.got_value
  /\ \E row \in disk.collection_meta : row.name = ret.key.name
  /\ \E r \in disk.kv_store : r.collection = ret.key.name
\* C6 (signature immutability), as claimed: every name for which
\* get_collection has returned a handle with signatures (sk, sv) is still
\* registered with (sk, sv), and no handle with other signatures has been
\* returned for it.
C6_SignatureImmutable ==
  /\ \A c \in colls :
       [name |-> c.name, key_type |-> c.K, value_type |-> c.V]
         \in collection_meta
  /\ \A c1, c2 \in colls : c1.name = c2.name => c1 = c2

\* C7 (transaction exclusivity): at most one transaction handle is open, and
\* one is open exactly when the engine transaction is; after a successful
\* begin the new handle is the only open one, and a begin that failed left
\* the outstanding transaction as the only open one.
C7_TransactionExclusivity ==
  /\ Cardinality(OpenTxs) <= 1
  /\ (OpenTxs # {}) <=> ~autocommit
  /\ (ret.op = "begin" /\ ret.res = Ok(Unit)) => OpenTxs = {ret.tx}
  /\ (ret.op = "begin" /\ ret.res # Ok(Unit)) => Cardinality(OpenTxs) = 1

\* C7 witness: begin on a second Collection handle has just failed while
\* the transaction of another handle is open.
C7_Witness ==
  /\ ret.op = "begin"
  /\ ret.res = Err([kind |-> "SqliteError"])
  /\ Cardinality(OpenTxs) = 1
  /\ Cardinality(colls) >= 2

\* The operations of a transaction handle.
TxOps == {"contains", "get", "set", "put", "del", "keys", "scan", "clear",
          "count", "commit", "rollback", "drop"}

\* C8 (transaction lifecycle): every handle is Open, Committed or
\* RolledBack; a new handle starts Open; a handle changes state only from
\* Open, to Committed by a successful commit or to RolledBack by rollback,
\* cancel or the rollback of a dropped handle (a failed commit drops it), so
\* both are terminal and a handle is finalized at most once; every
\* operation acts on a handle that is Open, and commit, rollback and cancel
\* leave it not Open.
C8_Lifecycle ==
  [][ /\ Len(txs') >= Len(txs)
      /\ \A t \in 1..Len(txs') :
           txs'[t].state \in {"Open", "Committed", "RolledBack"}
      /\ \A t \in (Len(txs) + 1)..Len(txs') : txs'[t].state = "Open"
      /\ \A t \in 1..Len(txs) :
           txs'[t].state # txs[t].state =>
             /\ txs[t].state = "Open"
             /\ ret'.tx = t
             /\ \/ /\ txs'[t].state = "Committed"
                   /\ ret'.op = "commit"
                   /\ ret'.res = Ok(Unit)
                \/ /\ txs'[t].state = "RolledBack"
                   /\ \/ ret'.op \in {"rollback", "drop"}
                      \/ ret'.op = "commit" /\ ret'.res.tag = "Err"
      /\ ret'.op \in TxOps => ret'.tx \in OpenTxs
      /\ ret'.op \in {"commit", "rollback", "drop"} => ret'.tx \notin OpenTxs'
    ]_vars

\* C8 witness: one handle has been committed and another rolled back.
C8_Witness ==
  \E t1, t2 \in 1..Len(txs) :
    /\ txs[t1].state = "Committed"
    /\ txs[t2].state = "RolledBack"

\* C9 (namespace isolation): a put through collection x changes no entry of
\* another collection, is rejected with KeyAlreadyExists only when x itself
\* holds the key, and otherwise succeeds and adds the entry to x whatever
\* other collections hold under the same key bytes; a get through x that
\* returns a value returns the one of x's own entry.
C9_NamespaceIsolation ==
  [][ store.kind = "Database" =>
        LET t == ret'.tx
            name == txs[t].coll.name
            kb == to_stdvec(ret'.key)
            own == { r \in kv_store : r.collection = name /\ r.key = kb }
        IN
        /\ ret'.op = "put" =>
             /\ { r \in kv_store' : r.collection # name } =
                { r \in kv_store : r.collection # name }
             /\ ret'.res = Err([kind |-> "KeyAlreadyExists"]) => own # {}
             /\ own = {} =>
                  /\ ret'.res = Ok(Unit)
                  /\ [collection |-> name, key |-> kb,
                      value |-> to_stdvec(ret'.val)] \in kv_store'
        /\ (ret'.op = "get" /\ ret'.res.tag = "Ok" /\ ret'.res.v # None) =>
             \E r \in own :
               from_bytes(txs[t].coll.V, r.value) =
                 [ok |-> TRUE, val |-> ret'.res.v]
    ]_vars

\* C9 witness: get(k) through one collection has just returned its own
\* value while another collection holds a different value under the same
\* key bytes.
C9_Witness ==
  /\ store.kind = "Database"
  /\ ret.op = "get"
  /\ ret.res.tag = "Ok"
  /\ ret.res.v # None
  /\ ret.tx \in OpenTxs
  /\ \E r1, r2 \in kv_store :
       /\ r1.collection = txs[ret.tx].coll.name
       /\ r2.collection # r1.collection
       /\ r1.key = to_stdvec(ret.key)
       /\ r2.key = r1.key
       /\ r1.value = to_stdvec(ret.res.v)
       /\ r2.value # r1.value

\* C10 (commit visibility): a commit that returns success makes the
\* committed entries exactly the entries the committing handle saw just
\* before it, and whenever no
\* transaction is open the connection (hence any transaction opened next)
\* sees exactly the committed entries.
C10_CommitVisibility ==
  [][ /\ (ret'.op = "commit" /\ ret'.res = Ok(Unit)) =>
           /\ disk'.kv_store = kv_store
           /\ kv_store' = kv_store
           /\ autocommit'
      /\ autocommit' => kv_store' = disk'.kv_store
    ]_vars

\* C10 witness: a second transaction has just committed deletions that
\* emptied the store an earlier commit had filled.
C10_Witness ==
  /\ ret.op = "commit"
  /\ ret.res = Ok(Unit)
  /\ ret.dirty
  /\ Len(txs) = 2
  /\ disk.kv_store = {}
  /\ kv_store = {}

\* The key type a transaction handle t encodes and decodes with.
KeyTypeOf(t) == IF store.kind = "Db" THEN store.K ELSE txs[t].coll.K

\* The pairs (k, v) of the handle's types whose encodings are a row of rows.
PairsOf(rows, t) ==
  { p \in ValuesOf(KeyTypeOf(t)) \X ValuesOf(ValueTypeOf(t)) :
      \E r \in rows : r.key = to_stdvec(p[1]) /\ r.value = to_stdvec(p[2]) }

\* Every row of rows was written with the handle's key and value types.
WrittenAs(rows, t) ==
  \A r \in rows :
    \E k \in ValuesOf(KeyTypeOf(t)), v \in ValuesOf(ValueTypeOf(t)) :
      r.key = to_stdvec(k) /\ r.value = to_stdvec(v)

\* C11 (scan completeness): count() is the number of entries in scope,
\* which is the number of distinct keys in scope; and when the entries in
\* scope are the N pairs put or set with the handle's own types, scan()
\* returns exactly those N pairs, each once, and keys() exactly their N
\* keys, each once.
C11_ScanCompleteness ==
  [][ ret'.op \in {"scan", "keys", "count"} =>
        LET t == ret'.tx
            scope == ScopeOf(kv_store, t)
            pairs == PairsOf(scope, t)
            N == Cardinality(scope)
        IN /\ Cardinality({ r.key : r \in scope }) = N
           /\ ret'.op = "count" => ret'.res = Ok(N)
           /\ WrittenAs(scope, t) =>
                /\ Cardinality(pairs) = N
                /\ ret'.op = "scan" => ret'.res = Ok([p \in pairs |-> 1])
                /\ ret'.op = "keys" =>
                     /\ ret'.res = Ok([k \in { p[1] : p \in pairs } |-> 1])
                     /\ Cardinality({ p[1] : p \in pairs }) = N
    ]_vars

\* C11 witness: the second transaction, having changed nothing, has just
\* scanned the two pairs that the first one committed into the empty store.
C11_Witness ==
  /\ ret.op = "scan"
  /\ ret.res.tag = "Ok"
  /\ Cardinality(DOMAIN ret.res.v) = 2
  /\ Len(txs) = 2
  /\ txs[1].state = "Committed"
  /\ ret.tx = 2
  /\ 2 \in OpenTxs
  /\ kv_store = disk.kv_store
  /\ Cardinality(kv_store) = 2

\* C12 (idempotent delete): del(k) always returns success and leaves the
\* handle open and the committed entries alone; on a key without an entry
\* in scope it changes nothing; on a present key it removes that entry and
\* nothing else; and afterwards k has no entry, so a second del(k) is the
\* first case and del(k); del(k) amounts to one del(k).
C12_IdempotentDelete ==
  [][ ret'.op = "del" =>
        LET t == ret'.tx
            kb == to_stdvec(ret'.key)
            old == Entry(ScopeOf(kv_store, t), kb)
        IN /\ ret'.res = Ok(Unit)
           /\ t \in OpenTxs'
           /\ disk' = disk
           /\ collection_meta' = collection_meta
           /\ old = {} => kv_store' = kv_store
           /\ kv_store' = kv_store \ old
           /\ Cardinality(old) <= 1
           /\ Entry(ScopeOf(kv_store', t), kb) = {}
    ]_vars

\* C12 witness: del(k) has just removed the committed entry of k from the
\* handle's view and left the other committed entry in it.
C12_Witness ==
  /\ ret.op = "del"
  /\ ret.tx \in OpenTxs
  /\ Cardinality(ScopeOf(disk.kv_store, ret.tx)) = 2
  /\ Entry(ScopeOf(disk.kv_store, ret.tx), to_stdvec(ret.key)) # {}
  /\ kv_store = disk.kv_store \
                  Entry(ScopeOf(disk.kv_store, ret.tx), to_stdvec(ret.key))

\* C13 (exactly-once finalization): whenever no handle is alive the engine
\* transaction is closed; a finalized handle never changes again; a handle
\* leaves Open only by commit, rollback, cancel or being dropped (a failed
\* commit drops it), and that step closes the engine transaction, with the
\* handle's writes either all committed or all discarded; a begin issued
\* when no handle is alive succeeds; and every handle that is opened is
\* eventually finalized.
C13_ExactlyOnceFinalization ==
  /\ [](OpenTxs = {} => autocommit)
  /\ [][ /\ \A t \in 1..Len(txs) :
              /\ txs[t].state # "Open" => txs'[t] = txs[t]
              /\ (txs[t].state = "Open" /\ txs'[t].state # "Open") =>
                   /\ ret'.op \in {"commit", "rollback", "drop"}
                   /\ ret'.tx = t
                   /\ autocommit'
                   /\ kv_store' = disk'.kv_store
                   /\ collection_meta' = disk'.collection_meta
                   /\ IF txs'[t].state = "Committed"
                      THEN disk'.kv_store = kv_store
                      ELSE disk' = disk
         /\ (ret'.op = "begin" /\ OpenTxs = {}) =>
              /\ ret'.res = Ok(Unit)
              /\ OpenTxs' = {ret'.tx}
              /\ ~autocommit'
       ]_vars
  /\ \A t \in 1..MaxTx :
       (t \in OpenTxs) ~> (t <= Len(txs) /\ txs[t].state # "Open")

\* C13 witness: the commit of a second handle that held uncommitted writes
\* has just failed over a non-empty committed store; no handle is alive and
\* the engine transaction is closed.
C13_Witness ==
  /\ ret.op = "commit"
  /\ ret.res = Err([kind |-> "SqliteError"])
  /\ ret.dirty
  /\ ret.tx = 2
  /\ txs[2].state = "RolledBack"
  /\ OpenTxs = {}
  /\ autocommit
  /\ disk.kv_store # {}
  /\ kv_store = disk.kv_store

\* C14 (a failed put is harmless): a put that returns KeyAlreadyExists
\* changes nothing: the handle is still Open on the same, still open engine
\* transaction, every entry in its view (the writes made earlier on it
\* included) and every committed entry is as before, and the rejected value
\* is not stored; so whatever follows, a commit included, acts on the state
\* the handle had before the put.
C14_FailedPutHarmless ==
  [][ (ret'.op = "put" /\ ret'.res = Err([kind |-> "KeyAlreadyExists"])) =>
        /\ ret'.tx \in OpenTxs
        /\ txs' = txs
        /\ autocommit' = autocommit
        /\ ~autocommit'
        /\ kv_store' = kv_store
        /\ collection_meta' = collection_meta
        /\ disk' = disk
        /\ colls' = colls
        /\ \E r \in Entry(ScopeOf(kv_store', ret'.tx), to_stdvec(ret'.key)) :
             r \in kv_store
    ]_vars

\* C14 witness: a put has just been rejected on a handle that still holds
\* its earlier uncommitted writes, among them the entry of the same key
\* with another value.
C14_Witness ==
  /\ ret.op = "put"
  /\ ret.res = Err([kind |-> "KeyAlreadyExists"])
  /\ ret.tx \in OpenTxs
  /\ ~autocommit
  /\ \E r \in Entry(ScopeOf(kv_store, ret.tx), to_stdvec(ret.key)) :
       /\ r \notin disk.kv_store
       /\ r.value # to_stdvec(ret.val)
  /\ Cardinality(kv_store \ disk.kv_store) = 2

\* C15 (decode failures are hard errors): get(k) on a key whose entry in
\* scope holds value bytes that do not decode as V returns
\* SerializationError, and returns absence only when k has no entry;
\* keys() returns SerializationError, and no list, when the key of some row
\* in scope does not decode as K, and scan() when the key or the value of
\* some row does not decode; otherwise they return the list of all rows in
\* scope, decoded.
C15_DecodeFailureIsError ==
  [][ ret'.op \in {"get", "keys", "scan"} =>
        LET t == ret'.tx
            scope == ScopeOf(kv_store, t)
            key(r) == from_bytes(KeyTypeOf(t), r.key)
            value(r) == from_bytes(ValueTypeOf(t), r.value)
            SerializationError == Err([kind |-> "SerializationError"])
        IN /\ ret'.op = "get" =>
                LET rows == Entry(scope, to_stdvec(ret'.key)) IN
                /\ (\E r \in rows : ~value(r).ok) =>
                     ret'.res = SerializationError
                /\ ret'.res = Ok(None) <=> rows = {}
           /\ ret'.op = "keys" =>
                IF \E r \in scope : ~key(r).ok
                THEN ret'.res = SerializationError
                ELSE ret'.res = Ok(VecOf([r \in scope |-> key(r).val]))
           /\ ret'.op = "scan" =>
                IF \E r \in scope : ~key(r).ok \/ ~value(r).ok
                THEN ret'.res = SerializationError
                ELSE ret'.res =
                       Ok(VecOf([r \in scope |-> <<key(r).val, value(r).val>>]))
    ]_vars

\* C15 witness: scan() has just returned SerializationError over a scope in
\* which one row decodes and another does not.
C15_Witness ==
  /\ ret.op = "scan"
  /\ ret.res = Err([kind |-> "SerializationError"])
  /\ ret.tx \in OpenTxs
  /\ \E r1, r2 \in ScopeOf(kv_store, ret.tx) :
       /\ from_bytes(KeyTypeOf(ret.tx), r1.key).ok
       /\ from_bytes(ValueTypeOf(ret.tx), r1.value).ok
       /\ ~from_bytes(KeyTypeOf(ret.tx), r2.key).ok

\* C16 (collection scoping): through a transaction of collection x, set,
\* put, del and clear (any step, in fact) leave the entries of every other
\* collection as they were, and contains, get, keys, scan and count answer
\* from the entries of x alone: contains(k) and get(k) from x's entry of k,
\* keys and scan from x's rows, each row once, count with their number.
C16_CollectionScoping ==
  [][ (store.kind = "Database" /\ ret'.op \in TxOps) =>
        LET t == ret'.tx
            name == txs[t].coll.name
            own == { r \in kv_store : r.collection = name }
            key(r) == from_bytes(txs[t].coll.K, r.key)
            value(r) == from_bytes(txs[t].coll.V, r.value)
            Rows(item) == { r \in own : key(r).ok /\ value(r).ok /\
                                       <<key(r).val, value(r).val>> = item }
            RowsK(k) == { r \in own : key(r).ok /\ key(r).val = k }
        IN /\ \A y \in Names \ {name} :
                { r \in kv_store' : r.collection = y } =
                { r \in kv_store : r.collection = y }
           /\ ret'.op = "contains" =>
                ret'.res = Ok(\E r \in own : r.key = to_stdvec(ret'.key))
           /\ (ret'.op = "get" /\ ret'.res # Ok(None)) =>
                \E r \in own : r.key = to_stdvec(ret'.key)
           /\ ret'.op = "count" => ret'.res = Ok(Cardinality(own))
           /\ (ret'.op = "keys" /\ ret'.res.tag = "Ok") =>
                \A k \in DOMAIN ret'.res.v :
                  ret'.res.v[k] = Cardinality(RowsK(k)) /\ RowsK(k) # {}
           /\ (ret'.op = "scan" /\ ret'.res.tag = "Ok") =>
                \A item \in DOMAIN ret'.res.v :
                  ret'.res.v[item] = Cardinality(Rows(item)) /\ Rows(item) # {}
    ]_vars

\* C16 witness: count() through one collection has just returned 1 while
\* another collection holds two committed entries.
C16_Witness ==
  /\ store.kind = "Database"
  /\ ret.op = "count"
  /\ ret.res = Ok(1)
  /\ ret.tx \in OpenTxs
  /\ Cardinality({ r \in disk.kv_store :
                     r.collection # txs[ret.tx].coll.name }) = 2
  /\ Cardinality(kv_store) = 3

\* C17 (clear): clear() returns success and leaves the handle's collection
\* without entries, the handle open, and the registry and the committed
\* entries as they were; on a collection without entries count() is 0,
\* keys() and scan() are empty, contains(k) is false and get(k) is absent;
\* and a rollback (or drop) afterwards puts back the committed entries.
C17_Clear ==
  [][ (store.kind = "Database" /\ ret'.op \in TxOps) =>
        LET t == ret'.tx
            scope == ScopeOf(kv_store, t)
        IN /\ ret'.op = "clear" =>
                /\ ret'.res = Ok(Unit)
                /\ ScopeOf(kv_store', t) = {}
                /\ kv_store' = kv_store \ scope
                /\ collection_meta' = collection_meta
                /\ disk' = disk
                /\ t \in OpenTxs'
           /\ scope = {} =>
                /\ ret'.op = "count" => ret'.res = Ok(0)
                /\ ret'.op \in {"keys", "scan"} => ret'.res = Ok(<< >>)
                /\ ret'.op = "contains" => ret'.res = Ok(FALSE)
                /\ ret'.op = "get" => ret'.res = Ok(None)
           /\ ret'.op \in {"rollback", "drop"} =>
                /\ kv_store' = disk.kv_store
                /\ disk' = disk
    ]_vars

\* C17 witness: clear() has just emptied, in the handle's view, a registered
\* collection that holds two committed entries.
C17_Witness ==
  /\ store.kind = "Database"
  /\ ret.op = "clear"
  /\ ret.tx \in OpenTxs
  /\ ScopeOf(kv_store, ret.tx) = {}
  /\ Cardinality(ScopeOf(disk.kv_store, ret.tx)) = 2
  /\ \E m \in collection_meta : m.name = txs[ret.tx].coll.name

\* C18 (reads have no effect): contains, get, keys, scan and count, whatever
\* they return, leave the entries the transaction sees, the committed
\* entries, the registry, the Collection handles and every transaction
\* handle as they were; the handle they were called on is still Open.
C18_ReadsHaveNoEffect ==
  [][ ret'.op \in {"contains", "get", "keys", "scan", "count"} =>
        /\ kv_store' = kv_store
        /\ disk' = disk
        /\ collection_meta' = collection_meta
        /\ autocommit' = autocommit
        /\ txs' = txs
        /\ colls' = colls
        /\ store' = store
        /\ ret'.tx \in OpenTxs'
    ]_vars

\* C18 witness: get has just failed with SerializationError in a
\* transaction that holds uncommitted writes, over committed entries.
C18_Witness ==
  /\ ret.op = "get"
  /\ ret.res = Err([kind |-> "SerializationError"])
  /\ ret.tx \in OpenTxs
  /\ disk.kv_store # {}
  /\ kv_store \ disk.kv_store # {}
  /\ Entry(kv_store, to_stdvec(ret.key)) # {}

\* C19 (register or validate): the registry, as the connection sees it and
\* as committed, never holds two rows for one name; get_collection for a
\* name without a row adds exactly the row (name, signature(K),
\* signature(V)) and returns the handle; for a name whose row has the same
\* signatures it returns the handle and leaves the registry as it was; and
\* it never changes an entry, in the transaction's view or committed.
C19_RegisterOrValidate ==
  /\ [](/\ \A m1, m2 \in collection_meta : m1.name = m2.name => m1 = m2
        /\ \A m1, m2 \in disk.collection_meta :
             m1.name = m2.name => m1 = m2)
  /\ [][ ret'.op = "get_collection" =>
           LET c == ret'.key
               row == [name |-> c.name, key_type |-> c.K, value_type |-> c.V]
               rows == { m \in collection_meta : m.name = c.name }
           IN /\ kv_store' = kv_store
              /\ disk'.kv_store = disk.kv_store
              /\ txs' = txs
              /\ rows = {} =>
                   /\ ret'.res = Ok(c)
                   /\ c \in colls'
                   /\ row \notin collection_meta
                   /\ collection_meta' = collection_meta \cup {row}
              /\ rows = {row} =>
                   /\ ret'.res = Ok(c)
                   /\ c \in colls'
                   /\ collection_meta' = collection_meta
                   /\ disk' = disk
       ]_vars

\* C19 witness: after the store was reopened, get_collection has just
\* returned the handle of a name whose committed registration has the same
\* signatures and whose collection holds committed entries.
C19_Witness ==
  /\ ret.op = "get_collection"
  /\ ret.res = Ok(ret.key)
  /\ colls = {ret.key}
  /\ [name |-> ret.key.name, key_type |-> ret.key.K,
      value_type |-> ret.key.V] \in disk.collection_meta
  /\ \E r \in disk.kv_store : r.collection = ret.key.name
  /\ \E t \in 1..Len(txs) : txs[t].state = "Committed"
  /\ Cardinality(disk.collection_meta) = 2

\* C20 (opening is idempotent): opening the backing file of a closed store
\* leaves the committed entries and the committed registry as they were and
\* the new connection sees exactly them, outside any transaction; and a
\* get_collection that asks for a committed registration's name with other
\* signatures is answered with TypeMismatch, whether or not the store was
\* reopened since the registration.
C20_OpenIsIdempotent ==
  [][ /\ ret'.op = "new" =>
           /\ ret'.res = Ok(Unit)
           /\ disk' = disk
           /\ kv_store' = disk.kv_store
           /\ collection_meta' = disk.collection_meta
           /\ autocommit'
           /\ store'.kind = store.kind
      /\ ret'.op = "get_collection" =>
           \A m \in disk.collection_meta :
             (/\ m.name = ret'.key.name
              /\ (m.key_type # ret'.key.K \/ m.value_type # ret'.key.V)) =>
               /\ ret'.res.tag = "Err"
               /\ ret'.res.v.kind = "TypeMismatch"
               /\ ret'.key \notin colls' \ colls
               /\ disk' = disk
    ]_vars

\* C20 witness: a Database holding committed entries and two committed
\* registrations has just been reopened.
C20_Witness ==
  /\ store.kind = "Database"
  /\ ret.op = "new"
  /\ colls = {}
  /\ Cardinality(disk.collection_meta) = 2
  /\ disk.kv_store # {}
  /\ kv_store = disk.kv_store
  /\ collection_meta = disk.collection_meta
  /\ autocommit

\* No two rows of rows agree on the primary key: (collection, key) in a
\* Database, key in a Db.
UniqueKeys(rows) ==
  \A r1, r2 \in rows :
    (/\ r1.key = r2.key
     /\ store.kind = "Database" => r1.collection = r2.collection) => r1 = r2

\* C21 (key uniqueness): in every reachable state the committed entries and
\* the entries an open transaction sees hold at most one entry per
\* (collection, key), per key in a Db.
C21_KeyUniqueness ==
  /\ UniqueKeys(kv_store)
  /\ UniqueKeys(disk.kv_store)

\* C21 witness: a second transaction has just set a key to a value other
\* than its committed one, next to another committed entry: its view still
\* holds two entries, one per key.
C21_Witness ==
  /\ ret.op = "set"
  /\ ret.tx = 2
  /\ 2 \in OpenTxs
  /\ Cardinality(disk.kv_store) = 2
  /\ Cardinality(kv_store) = 2
  /\ \E r \in disk.kv_store :
       r.key = to_stdvec(ret.key) /\ r.value # to_stdvec(ret.val)
  /\ \E r \in kv_store :
       r.key = to_stdvec(ret.key) /\ r.value = to_stdvec(ret.val)

\* C22 (read your own writes): a call on a transaction handle that directly
\* follows a write of the same handle reflects that write, committed or
\* not.  After set(k, v) or a successful put(k, v): get(k) returns v,
\* contains(k) is true, count() is at least 1, keys() and scan(), when they
\* succeed, list k and (k, v), and put(k, v2) returns KeyAlreadyExists;
\* after a rejected put(k, _), put(k, v2) is rejected again; after del(k):
\* get(k) is absent, contains(k) is false and put(k, v2) succeeds.
C22_ReadYourOwnWrites ==
  [][ (/\ ret.op \in {"set", "put", "del"}
       /\ ret'.op \in TxOps
       /\ ret'.tx = ret.tx) =>
        LET k == ret.key
            v == ret.val
            stored == ret.op = "set" \/ (ret.op = "put" /\ ret.res = Ok(Unit))
            same == ret'.key = k
        IN /\ (stored /\ same /\ ret'.op = "get") => ret'.res = Ok(v)
           /\ (stored /\ same /\ ret'.op = "contains") => ret'.res = Ok(TRUE)
           /\ (stored /\ ret'.op = "count") => ret'.res.v >= 1
           /\ (stored /\ ret'.op = "keys" /\ ret'.res.tag = "Ok") =>
                k \in DOMAIN ret'.res.v
           /\ (stored /\ ret'.op = "scan" /\ ret'.res.tag = "Ok") =>
                <<k, v>> \in DOMAIN ret'.res.v
           /\ (ret.op \in {"set", "put"} /\ same /\ ret'.op = "put") =>
                ret'.res = Err([kind |-> "KeyAlreadyExists"])
           /\ (ret.op = "del" /\ same /\ ret'.op = "get") =>
                ret'.res = Ok(None)
           /\ (ret.op = "del" /\ same /\ ret'.op = "contains") =>
                ret'.res = Ok(FALSE)
           /\ (ret.op = "del" /\ same /\ ret'.op = "put") =>
                ret'.res = Ok(Unit)
    ]_vars

\* C22 witness: get(k) has just returned the value of the handle's own
\* uncommitted entry of k while the committed entry of k holds another
\* value.
C22_Witness ==
  /\ ret.op = "get"
  /\ ret.res.tag = "Ok"
  /\ ret.res.v # None
  /\ ret.tx \in OpenTxs
  /\ \E r \in Entry(ScopeOf(disk.kv_store, ret.tx), to_stdvec(ret.key)) :
       r.value # to_stdvec(ret.res.v)
  /\ \E r \in Entry(ScopeOf(kv_store, ret.tx), to_stdvec(ret.key)) :
       /\ r.value = to_stdvec(ret.res.v)
       /\ r \notin disk.kv_store

\* C23 (registry covers all data), as claimed: in every committed state of
\* a Database, every collection name that owns an entry of kv_store has a
\* row in collection_meta.
C23_RegistryCoversData ==
  store.kind = "Database" =>
    \A r \in disk.kv_store :
      \E m \in disk.collection_meta : m.name = r.collection

\* C24 (a rejected begin is harmless): begin on a Collection handle while a
\* transaction of the store is open returns a storage error and changes
\* nothing: the outstanding handle is still Open on the still open engine
\* transaction, with its view, uncommitted writes included, and the
\* committed state as they were; a commit of that handle directly after
\* the rejected begin persists exactly that view, and a rollback, cancel or
\* drop discards exactly its uncommitted writes.
C24_RejectedBeginHarmless ==
  [][ /\ (ret'.op = "begin" /\ OpenTxs # {}) =>
           /\ ret'.res = Err([kind |-> "SqliteError"])
           /\ txs' = txs
           /\ OpenTxs' = OpenTxs
           /\ autocommit' = autocommit
           /\ ~autocommit'
           /\ kv_store' = kv_store
           /\ collection_meta' = collection_meta
           /\ disk' = disk
           /\ colls' = colls
      /\ (ret.op = "begin" /\ ret.res.tag = "Err") =>
           /\ (ret'.op = "commit" /\ ret'.res = Ok(Unit)) =>
                /\ disk'.kv_store = kv_store
                /\ kv_store' = kv_store
                /\ txs'[ret'.tx].state = "Committed"
           /\ ret'.op \in {"rollback", "drop"} =>
                /\ kv_store' = disk.kv_store
                /\ disk' = disk
                /\ txs'[ret'.tx].state = "RolledBack"
    ]_vars

\* C24 witness: begin on a second handle has just been rejected while the
\* transaction of another handle is open and holds uncommitted writes.
C24_Witness ==
  /\ ret.op = "begin"
  /\ ret.res = Err([kind |-> "SqliteError"])
  /\ OpenTxs # {}
  /\ ~autocommit
  /\ kv_store \ disk.kv_store # {}
  /\ Cardinality(colls) >= 2
====
